---- MODULE Spec2Model ----
(***************************************************************************)
(* Huffman coding, src/search/greedy/huffman.cc.                           *)
(*                                                                         *)
(* The model keeps the program's heap: a Node lives at an address, the     *)
(* vector ts holds addresses, and every comparison the source              *)
(* writes on elements of ts is a comparison of addresses.  `new Node()'    *)
(* may return any free address.  nodes and huffman allocate 2n-1 nodes for *)
(* a text of n distinct chars and free none, and only the order of the     *)
(* addresses is observable, so the address space of a run has 2n-1 cells.  *)
(***************************************************************************)
EXTENDS Integers, Sequences, FiniteSets, TLC

VARIABLES
    w,        \* main: the text (string w)
    hist,     \* freq's result, map<char,int>
    heap,     \* address -> Node or Free
    ts,       \* nodes' result / huffman's by-value parameter, vector<Node*>
    i,        \* huffman: the scan index of the for loop (0-based, as in C++)
    tr,       \* main: Node* tr, huffman's result
    codes,    \* codetable's result, map<char,string>
    msg,      \* encode's parameter w
    cs,       \* encode's result
    bits,     \* decode's parameter bits
    it,       \* decode: the iterator, as an offset from bits.begin()
    t,        \* decode: the cursor Node* t
    out,      \* decode: the string w being built
    pc,       \* the control point
    signal,   \* what the run raised: "none", or the fault that ended it
    prev      \* SpecTwo: the tree an earlier run built from the same text

vars == <<w, hist, heap, ts, i, tr, codes, msg, cs, bits, it, t, out, pc, signal, prev>>

----------------------------------------------------------------------------
(* Bounds and the small sets inputs are drawn from. *)

MaxLen == 4          \* longest text handed to freq
MaxMsg == 3          \* longest extra message handed to encode
MaxBits == 3         \* longest arbitrary bit-string handed to decode
MaxOverread == 2     \* reads past bits.end() followed before the fault
MaxOut == 6          \* capacity of decode's output string before bad_alloc

Alphabet == <<"a", "b", "c", "d">>  \* the chars of the texts, in char order
Symbols == {Alphabet[k] : k \in 1..Len(Alphabet)}
FewSymbols == {Alphabet[k] : k \in 1..(Len(Alphabet) - 1)}
Ord(c) == CHOOSE k \in 1..Len(Alphabet) : Alphabet[k] = c

NUL == "NUL"                        \* the char '\0'
BitChars == {"0", "1", "x"}         \* chars a bit-string may hold
NULL == 0
Free == [free |-> TRUE]
Addrs == 1 .. (2 * Len(Alphabet) - 1)
Range(s) == {s[k] : k \in 1..Len(s)}
HeapOf(text) == [a \in 1 .. (2 * Cardinality(Range(text)) - 1) |-> Free]
NoTree == [leaf |-> FALSE, c |-> NUL, w |-> 0, kids |-> << >>]

SeqsUpTo(S, n) == UNION {[1..k -> S] : k \in 0..n}

EmptyMap == [x \in {} |-> 0]
MapPut(m, k, v) == [x \in (DOMAIN m) \cup {k} |-> IF x = k THEN v ELSE m[x]]

----------------------------------------------------------------------------
(* struct Node and its helpers. *)

Node(wt, c, l, r) == [w |-> wt, c |-> c, left |-> l, right |-> r]

isleaf(h, a) == h[a].left = NULL /\ h[a].right = NULL

leaf(c, wt) == Node(wt, c, NULL, NULL)

FreeAddrs(h) == {a \in DOMAIN h : h[a] = Free}

(* A merge that forgets the second child's weight. *)
merge_LeftWeightOnly(h, a, b) == Node(h[a].w, NUL, a, b)

merge(h, a, b) == Node(h[a].w + h[b].w, NUL, a, b)

(* Node* < Node*: the source compares the pointers, not the nodes. *)
PtrLess(p, q) == p < q

PtrMin(p, q) == IF PtrLess(q, p) THEN q ELSE p

At(s, k) == s[k + 1]                \* s[k] with C++'s 0-based index

StdSwap(s, j, k) ==
    [x \in 1..Len(s) |-> IF x = j + 1 THEN At(s, k)
                         ELSE IF x = k + 1 THEN At(s, j) ELSE s[x]]

swap(s, a, j, k) ==
    IF PtrLess(At(s, j), At(s, k)) THEN StdSwap(s, a, k) ELSE StdSwap(s, a, j)

----------------------------------------------------------------------------
(* freq: ++hist[*it] for every char of the text. *)

RECURSIVE freqFrom(_, _, _)
freqFrom(text, k, h) ==
    IF k > Len(text) THEN h
    ELSE LET c == text[k]
             n == IF c \in DOMAIN h THEN h[c] ELSE 0
         IN freqFrom(text, k + 1, MapPut(h, c, n + 1))

freq(text) == freqFrom(text, 1, EmptyMap)

(* The structure below a pointer, without the addresses. *)
RECURSIVE Tree(_, _)
Tree(h, a) ==
    IF isleaf(h, a)
    THEN [leaf |-> TRUE, c |-> h[a].c, w |-> h[a].w, kids |-> << >>]
    ELSE [leaf |-> FALSE, c |-> h[a].c, w |-> h[a].w,
          kids |-> <<Tree(h, h[a].left), Tree(h, h[a].right)>>]

----------------------------------------------------------------------------
InitWith(texts) ==
    /\ w \in texts
    /\ hist = EmptyMap
    /\ heap = HeapOf(w)
    /\ ts = << >>
    /\ i = 0
    /\ tr = NULL
    /\ codes = EmptyMap
    /\ msg = << >>
    /\ cs = << >>
    /\ bits = << >>
    /\ it = 0
    /\ t = NULL
    /\ out = << >>
    /\ pc = "main"
    /\ signal = "none"
    /\ prev = NoTree

(* Texts of up to MaxLen chars over all but the last char of the alphabet, *)
(* and the texts over the whole alphabet just long enough to use it all.   *)
Init == InitWith(SeqsUpTo(FewSymbols, MaxLen) \cup SeqsUpTo(Symbols, Len(Alphabet)))

(* huffman never reads a weight, so for the calls of encode and decode the *)
(* texts just long enough to use every char of FewSymbols give every tree. *)
InitFew == InitWith(SeqsUpTo(FewSymbols, Len(Alphabet) - 1))

(* main line 165: freq(w). *)
Freq ==
    /\ pc = "main"
    /\ hist' = freq(w)
    /\ pc' = "nodes"
    /\ UNCHANGED <<w, heap, ts, i, tr, codes, msg, cs, bits, it, t, out, signal, prev>>

(* nodes: one push_back(leaf(...)) per map entry, in key order. *)
Pushed == {heap[ts[k]].c : k \in 1..Len(ts)}
Pending == (DOMAIN hist) \ Pushed

NodesPush ==
    /\ pc = "nodes"
    /\ Pending # {}
    /\ LET c == CHOOSE x \in Pending : \A y \in Pending : Ord(x) <= Ord(y)
       IN \E a \in FreeAddrs(heap) :
            /\ heap' = [heap EXCEPT ![a] = leaf(c, hist[c])]
            /\ ts' = Append(ts, a)
    /\ UNCHANGED <<w, hist, i, tr, codes, msg, cs, bits, it, t, out, pc, signal, prev>>

NodesReturn ==
    /\ pc = "nodes"
    /\ Pending = {}
    /\ pc' = "while"
    /\ UNCHANGED <<w, hist, heap, ts, i, tr, codes, msg, cs, bits, it, t, out, signal, prev>>

(* huffman line 83: while ((n = ts.size()) > 1), then int i = n - 3. *)
While ==
    /\ pc = "while"
    /\ IF Len(ts) > 1
       THEN /\ i' = Len(ts) - 3
            /\ pc' = "for"
       ELSE /\ i' = i
            /\ pc' = "return"
    /\ UNCHANGED <<w, hist, heap, ts, tr, codes, msg, cs, bits, it, t, out, signal, prev>>

(* huffman lines 84-86: one pass of the for loop. *)
ScanStep(s, k) ==
    LET n == Len(s)
    IN IF PtrLess(At(s, k), PtrMin(At(s, n - 1), At(s, n - 1)))
       THEN swap(s, k, n - 1, n - 2)
       ELSE s

For ==
    /\ pc = "for"
    /\ IF i >= 0
       THEN /\ ts' = ScanStep(ts, i)
            /\ i' = i - 1
            /\ pc' = pc
       ELSE /\ ts' = ts
            /\ i' = i
            /\ pc' = "merge"
    /\ UNCHANGED <<w, hist, heap, tr, codes, msg, cs, bits, it, t, out, signal, prev>>

(* huffman lines 87-88: ts[n-2] = merge(ts[n-1], ts[n-2]); ts.pop_back(). *)
MergeStep(h, s, a) ==
    LET n == Len(s)
    IN [heap |-> [h EXCEPT ![a] = merge(h, At(s, n - 1), At(s, n - 2))],
        ts |-> SubSeq([s EXCEPT ![n - 1] = a], 1, n - 1)]

Merge ==
    /\ pc = "merge"
    /\ \E a \in FreeAddrs(heap) :
         LET r == MergeStep(heap, ts, a)
         IN /\ heap' = r.heap
            /\ ts' = r.ts
    /\ pc' = "while"
    /\ UNCHANGED <<w, hist, i, tr, codes, msg, cs, bits, it, t, out, signal, prev>>

(* huffman line 90: return ts.front().  On an empty vector front() is      *)
(* undefined: the call faults, or hands back whatever pointer it reads.    *)
Return ==
    /\ pc = "return"
    /\ IF Len(ts) > 0
       THEN /\ tr' = At(ts, 0)
            /\ pc' = "built"
            /\ signal' = signal
       ELSE \/ /\ tr' \in Addrs \cup {NULL}
               /\ pc' = "undefined"
               /\ signal' = signal
            \/ /\ tr' = tr
               /\ pc' = "crashed"
               /\ signal' = "SIGSEGV"
    /\ UNCHANGED <<w, hist, heap, ts, i, codes, msg, cs, bits, it, t, out, prev>>

----------------------------------------------------------------------------
(* codetab / codetable: the code of a leaf is the path from the root. *)

(* A traversal that appends "0" on the way to either child. *)
RECURSIVE codetab_SameBit(_, _, _, _)
codetab_SameBit(h, a, b, cd) ==
    IF isleaf(h, a)
    THEN MapPut(cd, h[a].c, b)
    ELSE codetab_SameBit(h, h[a].right, Append(b, "0"),
                         codetab_SameBit(h, h[a].left, Append(b, "0"), cd))

RECURSIVE codetab(_, _, _, _)
codetab(h, a, b, cd) ==
    IF isleaf(h, a)
    THEN MapPut(cd, h[a].c, b)
    ELSE codetab(h, h[a].right, Append(b, "1"),
                 codetab(h, h[a].left, Append(b, "0"), cd))

codetable(h, a) == codetab(h, a, << >>, EmptyMap)

(* encode: bits += codes[*it].  map::operator[] on a key the table lacks   *)
(* inserts an empty string into encode's own copy and yields it.           *)
Lookup(cd, c) == IF c \in DOMAIN cd THEN cd ELSE MapPut(cd, c, << >>)

RECURSIVE encodeFrom(_, _, _, _)
encodeFrom(cd, text, k, b) ==
    IF k > Len(text) THEN b
    ELSE LET cd2 == Lookup(cd, text[k])
         IN encodeFrom(cd2, text, k + 1, b \o cd2[text[k]])

encode(cd, text) == encodeFrom(cd, text, 1, << >>)

(* A descent that takes the right child on '0'. *)
Child_Flipped(h, a, ch) == IF ch = "0" THEN h[a].right ELSE h[a].left

(* decode line 127: '0' == *it++ ? t->left : t->right. *)
Child(h, a, ch) == IF ch = "0" THEN h[a].left ELSE h[a].right

(* main line 167: codetable(tr). *)
CodeTable ==
    /\ pc = "built"
    /\ codes' = codetable(heap, tr)
    /\ pc' = "tabled"
    /\ UNCHANGED <<w, hist, heap, ts, i, tr, msg, cs, bits, it, t, out, signal, prev>>

(* main line 167: encode(codes, w). *)
EncodeCall(m) ==
    /\ pc = "tabled"
    /\ msg' = m
    /\ cs' = encode(codes, m)
    /\ pc' = "encoded"
    /\ UNCHANGED <<w, hist, heap, ts, i, tr, codes, bits, it, t, out, signal, prev>>

Encode == EncodeCall(w)

(* encode called with a message that need not be the text of the table. *)
EncodeMsg == \E m \in SeqsUpTo(FewSymbols, MaxMsg) : EncodeCall(m)

(* main line 169: decode(tr, cs). *)
DecodeCall ==
    /\ pc = "encoded"
    /\ bits' = cs
    /\ it' = 0
    /\ out' = << >>
    /\ pc' = "dec_for"
    /\ UNCHANGED <<w, hist, heap, ts, i, tr, codes, msg, cs, t, signal, prev>>

(* decode called with a bit-string that need not come from encode. *)
DecodeBits ==
    /\ pc = "tabled"
    /\ bits' \in SeqsUpTo(BitChars, MaxBits)
    /\ it' = 0
    /\ out' = << >>
    /\ pc' = "dec_for"
    /\ UNCHANGED <<w, hist, heap, ts, i, tr, codes, msg, cs, t, signal, prev>>

(* decode line 121: it != bits.end(); line 123: Node* t = root. *)
DecodeFor ==
    /\ pc = "dec_for"
    /\ IF it # Len(bits)
       THEN /\ t' = tr
            /\ pc' = "dec_while"
       ELSE /\ t' = t
            /\ pc' = "decoded"
    /\ UNCHANGED <<w, hist, heap, ts, i, tr, codes, msg, cs, bits, it, out, signal, prev>>

(* decode lines 124-130.  Reading *it at or past bits.end() is undefined:  *)
(* the read yields some char, or the run faults; the model follows at most *)
(* MaxOverread such reads.  The output string grows until allocation fails.*)
DecodeWhile ==
    /\ pc = "dec_while"
    /\ IF ~isleaf(heap, t)
       THEN IF it < Len(bits)
            THEN /\ t' = Child(heap, t, At(bits, it))
                 /\ it' = it + 1
                 /\ UNCHANGED <<out, pc, signal>>
            ELSE \/ /\ it - Len(bits) < MaxOverread
                    /\ \E ch \in BitChars \cup {NUL} : t' = Child(heap, t, ch)
                    /\ it' = it + 1
                    /\ UNCHANGED <<out, pc, signal>>
                 \/ /\ pc' = "crashed"
                    /\ signal' = "SIGSEGV"
                    /\ UNCHANGED <<t, it, out>>
       ELSE IF Len(out) < MaxOut
            THEN /\ out' = Append(out, heap[t].c)
                 /\ pc' = "dec_for"
                 /\ UNCHANGED <<t, it, signal>>
            ELSE /\ pc' = "crashed"
                 /\ signal' = "bad_alloc"
                 /\ UNCHANGED <<t, it, out>>
    /\ UNCHANGED <<w, hist, heap, ts, i, tr, codes, msg, cs, bits, prev>>

(* A second run of nodes and huffman on the same histogram, in a fresh     *)
(* process image; the first run's tree is kept for comparison.             *)
Rerun ==
    /\ pc = "built"
    /\ prev = NoTree
    /\ prev' = Tree(heap, tr)
    /\ heap' = HeapOf(w)
    /\ ts' = << >>
    /\ tr' = NULL
    /\ pc' = "nodes"
    /\ UNCHANGED <<w, hist, i, codes, msg, cs, bits, it, t, out, signal>>

Next ==
    \/ Freq
    \/ NodesPush
    \/ NodesReturn
    \/ While
    \/ For
    \/ Merge
    \/ Return
    \/ CodeTable
    \/ Encode
    \/ DecodeCall
    \/ DecodeFor
    \/ DecodeWhile

Spec == Init /\ [][Next]_vars

NextCalls ==
    \/ Freq
    \/ NodesPush
    \/ NodesReturn
    \/ While
    \/ For
    \/ Merge
    \/ Return
    \/ CodeTable
    \/ Encode
    \/ EncodeMsg
    \/ DecodeCall
    \/ DecodeBits
    \/ DecodeFor
    \/ DecodeWhile

SpecCalls == InitFew /\ [][NextCalls]_vars

NextTwo ==
    \/ Freq
    \/ NodesPush
    \/ NodesReturn
    \/ While
    \/ For
    \/ Merge
    \/ Return
    \/ Rerun

SpecTwo == InitFew /\ [][NextTwo]_vars

----------------------------------------------------------------------------
(* Measures of a tree used by the properties below. *)

RECURSIVE Reach(_, _)
Reach(h, a) ==
    IF a = NULL THEN {}
    ELSE {a} \cup Reach(h, h[a].left) \cup Reach(h, h[a].right)

RECURSIVE NodeCount(_, _)
NodeCount(h, a) ==
    IF a = NULL THEN 0
    ELSE 1 + NodeCount(h, h[a].left) + NodeCount(h, h[a].right)

RECURSIVE LeafCount(_, _, _)
LeafCount(h, a, c) ==
    IF isleaf(h, a) THEN (IF h[a].c = c THEN 1 ELSE 0)
    ELSE LeafCount(h, h[a].left, c) + LeafCount(h, h[a].right, c)

RECURSIVE WellFormed(_, _)
WellFormed(h, a) ==
    \/ isleaf(h, a) /\ h[a].c \in DOMAIN hist /\ h[a].w = hist[h[a].c]
    \/ /\ h[a].left # NULL
       /\ h[a].right # NULL
       /\ h[a].w = h[h[a].left].w + h[h[a].right].w
       /\ WellFormed(h, h[a].left)
       /\ WellFormed(h, h[a].right)

RECURSIVE Cost(_, _, _)
Cost(h, a, d) ==
    IF isleaf(h, a) THEN h[a].w * d
    ELSE Cost(h, h[a].left, d + 1) + Cost(h, h[a].right, d + 1)

RECURSIVE SumSeq(_)
SumSeq(s) == IF s = << >> THEN 0 ELSE Head(s) + SumSeq(Tail(s))

Without(s, j, k) ==
    LET keep == {x \in 1..Len(s) : x # j /\ x # k}
        RECURSIVE Pick(_)
        Pick(x) == IF x > Len(s) THEN << >>
                   ELSE IF x \in keep THEN <<s[x]>> \o Pick(x + 1) ELSE Pick(x + 1)
    IN Pick(1)

SetMin(S) == CHOOSE x \in S : \A y \in S : x <= y

(* The least weighted path length over all binary trees on the weights ws: *)
(* every tree arises from some sequence of pairwise merges, and its        *)
(* weighted path length is the sum of the weights of its internal nodes.   *)
RECURSIVE OptCost(_)
OptCost(ws) ==
    IF Len(ws) <= 1 THEN 0
    ELSE SetMin({ws[j] + ws[k] + OptCost(Append(Without(ws, j, k), ws[j] + ws[k])) :
                   <<j, k>> \in {p \in (1..Len(ws)) \X (1..Len(ws)) : p[1] < p[2]}})

RECURSIVE HistWeights(_)
HistWeights(S) ==
    IF S = {} THEN << >>
    ELSE LET c == CHOOSE x \in S : TRUE IN <<hist[c]>> \o HistWeights(S \ {c})

IsPrefix(p, q) == Len(p) <= Len(q) /\ SubSeq(q, 1, Len(p)) = p

InHuffman == pc \in {"while", "for", "merge", "return", "built"}
Allocated == {a \in DOMAIN heap : heap[a] # Free}
Internal == {a \in Allocated : ~isleaf(heap, a)}
Roots == Range(ts)

----------------------------------------------------------------------------
(* C1. Round trip: once main has decoded the encoding of a non-empty text  *)
(* w with the tree and table built from w itself, the decoded string is w. *)
C1_RoundTrip ==
    (pc = "decoded" /\ Len(w) > 0 /\ msg = w /\ bits = cs) => out = w

(* C2. Weight-optimality: the tree huffman returns has the least sum of    *)
(* weight times depth over all binary trees on the same leaf weights.      *)
C2_WeightOptimal ==
    pc = "built" => Cost(heap, tr, 0) = OptCost(HistWeights(DOMAIN hist))

(* C3. Prefix-free: the keys of the code table are exactly the chars of    *)
(* the input leaves, and no code is a prefix of another char's code.       *)
C3_PrefixFree ==
    pc \in {"tabled", "encoded"} =>
        /\ DOMAIN codes = DOMAIN hist
        /\ \A a \in DOMAIN codes : \A b \in DOMAIN codes :
               a # b => ~IsPrefix(codes[a], codes[b])

C3_Witness ==
    /\ pc = "tabled"
    /\ DOMAIN codes = Symbols
    /\ \E a \in Symbols : \E b \in Symbols : Len(codes[a]) < Len(codes[b])

(* C4. Determinism: a second run of nodes and huffman on the same text     *)
(* returns a tree of the same structure as the first run's.                *)
C4_Deterministic ==
    (pc = "built" /\ prev # NoTree) => Tree(heap, tr) = prev

(* The ways a call of decode can have met a malformed bit-string. *)
BadChar == \E k \in 1..Len(bits) : bits[k] \notin {"0", "1"}
MidPath == t # NULL /\ ~isleaf(heap, t) /\ it >= Len(bits)
DecodeEnded == DOMAIN codes # {} /\ pc \in {"decoded", "crashed"}

(* C5. decode rejects a malformed bit-string: a call that met a char other *)
(* than '0' and '1', or ran out of bits below the root before a leaf, ends *)
(* with the malformed-bit-string error and hands back no output.           *)
C5_DecodeRejectsMalformed ==
    (DecodeEnded /\ (BadChar \/ MidPath \/ it > Len(bits))) =>
        (signal = "MalformedBitStringError" /\ pc # "decoded")

(* C6. encode rejects an unknown symbol: a call whose message holds a char *)
(* that is no key of the table ends with the unknown-symbol error and      *)
(* returns no bit-string.                                                  *)
C6_EncodeRejectsUnknown ==
    (pc = "encoded" /\ \E k \in 1..Len(msg) : msg[k] \notin DOMAIN codes) =>
        signal = "UnknownSymbolError"

(* C7. huffman called with no leaves signals EmptyInputError and returns   *)
(* no tree.                                                                *)
C7_EmptyInputError ==
    (DOMAIN hist = {} /\ pc \in {"built", "undefined", "crashed"}) =>
        signal = "EmptyInputError"

(* C8. Greedy step: the two nodes an iteration merges, ts[n-1] and         *)
(* ts[n-2], are two of least weight: no other node of the collection has a *)
(* weight strictly less than either of them.                               *)
C8_GreedyStep ==
    pc = "merge" =>
        LET n == Len(ts)
        IN \A k \in 0..(n - 3) :
              /\ heap[At(ts, k)].w >= heap[At(ts, n - 1)].w
              /\ heap[At(ts, k)].w >= heap[At(ts, n - 2)].w

(* C9. Forest invariant: throughout huffman's loop the collection is a     *)
(* forest of the allocated nodes; every input char is the char of exactly  *)
(* one leaf, with its count as weight; every internal node has two         *)
(* children and the sum of their weights; each merge has shrunk the        *)
(* collection by one; and the returned tree weighs the whole text.         *)
C9_Forest ==
    InHuffman =>
        /\ Roots \subseteq Allocated
        /\ Cardinality(Roots) = Len(ts)
        /\ \A r \in Roots : WellFormed(heap, r)
        /\ \A r \in Roots : NodeCount(heap, r) = Cardinality(Reach(heap, r))
        /\ \A r \in Roots : \A q \in Roots :
               r # q => Reach(heap, r) \cap Reach(heap, q) = {}
        /\ UNION {Reach(heap, r) : r \in Roots} = Allocated
        /\ \A c \in Symbols :
               SumSeq([k \in 1..Len(ts) |-> LeafCount(heap, ts[k], c)])
                   = (IF c \in DOMAIN hist THEN 1 ELSE 0)
        /\ Len(ts) + Cardinality(Internal) = Cardinality(DOMAIN hist)
        /\ pc = "built" =>
               /\ Len(ts) = 1
               /\ Cardinality(Internal) = Cardinality(DOMAIN hist) - 1
               /\ heap[tr].w = Len(w)

C9_Witness ==
    /\ pc = "built"
    /\ Cardinality(DOMAIN hist) = Len(Alphabet)
    /\ ~isleaf(heap, heap[tr].left)
    /\ ~isleaf(heap, heap[tr].right)

(* C10. For a tree of two or more leaves and a message over its chars,     *)
(* decode of the encoding never reads at or past the end of the            *)
(* bit-string, never faults, returns only between two codes with all the   *)
(* bits consumed, and returns the message.                                 *)
C10_DecodeOfEncode ==
    (/\ pc \in {"dec_for", "dec_while", "decoded", "crashed"}
     /\ Cardinality(DOMAIN codes) >= 2
     /\ bits = cs
     /\ Range(msg) \subseteq DOMAIN codes) =>
        /\ pc # "crashed"
        /\ it <= Len(bits)
        /\ (pc = "dec_while" /\ ~isleaf(heap, t)) => it < Len(bits)
        /\ IsPrefix(out, msg)
        /\ pc = "decoded" =>
               /\ out = msg
               /\ it = Len(bits)
               /\ IF bits = << >> THEN t = NULL ELSE isleaf(heap, t)

C10_Witness ==
    /\ pc = "decoded"
    /\ Cardinality(DOMAIN codes) = 3
    /\ bits = cs
    /\ Len(msg) = MaxMsg
    /\ Range(msg) = DOMAIN codes
    /\ out = msg

====
